---- MODULE Spec2Model ----
(***************************************************************************)
(* Memory paging simulator (memory_paging_simulator.c).                    *)
(*                                                                         *)
(* The program is a single-threaded menu loop.  Its state is the           *)
(* PhysicalMemory structure, the ProcessList structure, the locals of      *)
(* main and create_process that live across a blocking scanf, and the      *)
(* position of control (pc).  Every scanf is a point where the program     *)
(* waits for the user, so every action runs from one scanf to the next.    *)
(* C arrays are modelled as sequences: C index i is position i + 1.        *)
(***************************************************************************)
EXTENDS Integers, Sequences, FiniteSets, TLC

VARIABLES
    pc,                 \* position of control
    total_memory_size,  \* main: validated total size (0 until read)
    main_page_size,     \* main: validated page size (0 until read)
    max_process_size,   \* main: validated maximum process size (0 until read)
    memory,             \* phys_mem.memory, one byte per element
    total_size,         \* phys_mem.total_size
    page_size,          \* phys_mem.page_size
    number_of_frames,   \* phys_mem.number_of_frames
    free_frames,        \* phys_mem.free_frames
    free_frame_count,   \* phys_mem.free_frame_count
    processes,          \* proc_list.processes[0..count)
    count,              \* proc_list.count
    capacity,           \* proc_list.capacity
    slots,              \* number of Process slots of the block processes points to
    pid,                \* create_process / view_page_table: the id read by scanf
    size,               \* create_process: the size read by scanf
    rand_state,         \* state of the C library's rand()
    output,             \* the last report printed to the user
    handed,             \* every index allocate_frames has returned, in order
    failures,           \* number of NULL returns of malloc/calloc/realloc so far
    last_failed         \* id of the last create_process call, if it returned an error

vars == <<pc, total_memory_size, main_page_size, max_process_size, memory,
          total_size, page_size, number_of_frames, free_frames,
          free_frame_count, processes, count, capacity, slots, pid, size,
          rand_state, output, handed, failures, last_failed>>

physVars == <<memory, total_size, page_size, number_of_frames, free_frames,
              free_frame_count>>

listVars == <<processes, count, capacity, slots>>

mainVars == <<total_memory_size, main_page_size, max_process_size>>

-----------------------------------------------------------------------------
(* Bounds of the model.                                                    *)

\* Largest total memory size of the exhaustively enumerated configurations.
MaxTotal == 8

\* Number of distinct seeds srand may receive from time(NULL).
MaxSeed == 1

\* How many allocation requests (malloc, calloc, realloc) may return NULL.
MaxFail == 1

-----------------------------------------------------------------------------
(* Program constants.                                                      *)

INITIAL_PROCESS_LIST_CAPACITY == 10

\* Increment of the stand-in for the C library's generator (rand() % 256).
RandStep == 37

-----------------------------------------------------------------------------
(* Helpers.                                                                *)

\* C array read a[i].
At(a, i) == a[i + 1]

Pow2UpTo(n) == {x \in 1..n : \E k \in 0..10 : x = 2^k}

RECURSIVE BitAnd(_, _)
\* The bitwise & of two non-negative ints.
BitAnd(a, b) ==
    IF a = 0 \/ b = 0 THEN 0
    ELSE (a % 2) * (b % 2) + 2 * BitAnd(a \div 2, b \div 2)

\* is_power_of_two: (number > 0) && ((number & (number - 1)) == 0).
is_power_of_two(number) == (number > 0) /\ (BitAnd(number, number - 1) = 0)

\* The configuration of the end-to-end scenario and the configuration with
\* enough frames to fill the initial process list.
ScenarioConfig == <<1024, 256, 512>>
GrowthConfig == <<16, 1, 1>>

\* The configurations <<total, page, max process size>> the user sets up.
Configs ==
    {c \in Pow2UpTo(MaxTotal) \X Pow2UpTo(MaxTotal) \X Pow2UpTo(MaxTotal) :
        c[2] <= c[1] /\ c[3] <= c[1]}
    \cup {ScenarioConfig, GrowthConfig}

\* Numbers the user types that the validation loops of main reject.
BadNumbers == {0, 3}

TotalInputs == {c[1] : c \in Configs} \cup BadNumbers

PageInputs(t) ==
    {c[2] : c \in {d \in Configs : d[1] = t}} \cup BadNumbers \cup {2 * t}

MaxInputs(t, p) ==
    {c[3] : c \in {d \in Configs : d[1] = t /\ d[2] = p}} \cup BadNumbers \cup {2 * t}

NoOutput == [kind |-> "none"]

ErrorOutput(what) == [kind |-> "error", what |-> what]

-----------------------------------------------------------------------------
(* main: the configuration phase (lines 72-137).                           *)

Init ==
    /\ pc = "cfg_total"
    /\ total_memory_size = 0
    /\ main_page_size = 0
    /\ max_process_size = 0
    /\ memory = <<>>
    /\ total_size = 0
    /\ page_size = 0
    /\ number_of_frames = 0
    /\ free_frames = <<>>
    /\ free_frame_count = 0
    /\ processes = <<>>
    /\ count = 0
    /\ capacity = 0
    /\ slots = 0
    /\ pid = 0
    /\ size = 0
    /\ rand_state \in 1..MaxSeed
    /\ output = NoOutput
    /\ handed = <<>>
    /\ failures = 0
    /\ last_failed = 0

\* The total size typed is not a power of two: asked again.
RejectTotal(t) ==
    /\ pc = "cfg_total"
    /\ ~is_power_of_two(t)
    /\ output' = ErrorOutput("total_not_power_of_two")
    /\ UNCHANGED <<pc, mainVars, physVars, listVars, pid, size, rand_state,
                   handed, failures>>
    /\ UNCHANGED last_failed

AcceptTotal(t) ==
    /\ pc = "cfg_total"
    /\ is_power_of_two(t)
    /\ total_memory_size' = t
    /\ pc' = "cfg_page"
    /\ output' = NoOutput
    /\ UNCHANGED <<main_page_size, max_process_size, physVars, listVars, pid,
                   size, rand_state, handed, failures>>
    /\ UNCHANGED last_failed

\* The page size typed is not a power of two or exceeds the total size.
RejectPage(p) ==
    /\ pc = "cfg_page"
    /\ \/ /\ ~is_power_of_two(p)
          /\ output' = ErrorOutput("page_not_power_of_two")
       \/ /\ is_power_of_two(p)
          /\ p > total_memory_size
          /\ output' = ErrorOutput("page_exceeds_total")
    /\ UNCHANGED <<pc, mainVars, physVars, listVars, pid, size, rand_state,
                   handed, failures>>
    /\ UNCHANGED last_failed

AcceptPage(p) ==
    /\ pc = "cfg_page"
    /\ is_power_of_two(p)
    /\ ~(p > total_memory_size)
    /\ main_page_size' = p
    /\ pc' = "cfg_max"
    /\ output' = NoOutput
    /\ UNCHANGED <<total_memory_size, max_process_size, physVars, listVars,
                   pid, size, rand_state, handed, failures>>
    /\ UNCHANGED last_failed

\* The maximum process size typed is not a power of two or exceeds the total.
RejectMax(m) ==
    /\ pc = "cfg_max"
    /\ \/ /\ ~is_power_of_two(m)
          /\ output' = ErrorOutput("max_not_power_of_two")
       \/ /\ is_power_of_two(m)
          /\ m > total_memory_size
          /\ output' = ErrorOutput("max_exceeds_total")
    /\ UNCHANGED <<pc, mainVars, physVars, listVars, pid, size, rand_state,
                   handed, failures>>
    /\ UNCHANGED last_failed

NumberOfFramesRoundedUp(t, p) == (t + p) \div p

\* initialize_physical_memory: number_of_frames = total_size / page_size.
NumberOfFrames(t, p) == t \div p

FreeFramesFromOne(n) == [i \in 1..n |-> i]

\* initialize_physical_memory: free_frames[i] = i for 0 <= i < number_of_frames.
InitialFreeFrames(n) == [i \in 1..n |-> i - 1]

\* calloc(total_size, 1): total_size zero bytes.
ZeroedMemory(t) == [i \in 1..t |-> 0]

\* The third number is valid: main leaves the configuration loops and calls
\* initialize_physical_memory and initialize_process_list, every allocation
\* succeeding.
AcceptMaxAndInitialize(m) ==
    /\ pc = "cfg_max"
    /\ is_power_of_two(m)
    /\ ~(m > total_memory_size)
    /\ max_process_size' = m
    /\ total_size' = total_memory_size
    /\ page_size' = main_page_size
    /\ memory' = ZeroedMemory(total_memory_size)
    /\ number_of_frames' = NumberOfFrames(total_memory_size, main_page_size)
    /\ free_frames' = InitialFreeFrames(number_of_frames')
    /\ free_frame_count' = number_of_frames'
    /\ capacity' = INITIAL_PROCESS_LIST_CAPACITY
    /\ count' = 0
    /\ processes' = <<>>
    /\ slots' = INITIAL_PROCESS_LIST_CAPACITY
    /\ pc' = "menu"
    /\ output' = NoOutput
    /\ UNCHANGED <<total_memory_size, main_page_size, pid, size, rand_state,
                   handed, failures>>
    /\ UNCHANGED last_failed

\* calloc or malloc returns NULL during initialization: exit(EXIT_FAILURE).
AcceptMaxAndFail(m) ==
    /\ pc = "cfg_max"
    /\ is_power_of_two(m)
    /\ ~(m > total_memory_size)
    /\ failures < MaxFail
    /\ failures' = failures + 1
    /\ max_process_size' = m
    /\ pc' = "fatal"
    /\ output' = ErrorOutput("fatal_allocation")
    /\ UNCHANGED <<total_memory_size, main_page_size, physVars, listVars, pid,
                   size, rand_state, handed>>
    /\ UNCHANGED last_failed

-----------------------------------------------------------------------------
(* main: the menu loop (lines 141-175).                                    *)

\* The inner loop runs over the whole array instead of its first
\* free_frame_count entries.
IsFreeWholeArray(i) == \E j \in 0..(number_of_frames - 1) : At(free_frames, j) = i

\* The frame is in free_frames[0..free_frame_count): view_physical_memory's
\* inner loop.
IsFree(i) == \E j \in 0..(free_frame_count - 1) : At(free_frames, j) = i

\* case MENU_VIEW_MEMORY: view_physical_memory prints the sizes, the number
\* of free frames and the status of every frame.
MenuViewMemory ==
    /\ pc = "menu"
    /\ output' = [kind |-> "memory",
                  total_size |-> total_size,
                  page_size |-> page_size,
                  number_of_frames |-> number_of_frames,
                  free_frame_count |-> free_frame_count,
                  is_free |-> [i \in 1..number_of_frames |-> IsFree(i - 1)]]
    /\ UNCHANGED <<pc, mainVars, physVars, listVars, pid, size, rand_state,
                   handed, failures>>
    /\ UNCHANGED last_failed

\* case MENU_CREATE_PROCESS: create_process starts and waits for the id.
MenuCreate ==
    /\ pc = "menu"
    /\ pc' = "cp_pid"
    /\ output' = NoOutput
    /\ UNCHANGED <<mainVars, physVars, listVars, pid, size, rand_state,
                   handed, failures>>
    /\ UNCHANGED last_failed

\* case MENU_VIEW_PAGE_TABLE with an empty list: view_page_table returns.
MenuViewPageTableEmpty ==
    /\ pc = "menu"
    /\ count = 0
    /\ output' = [kind |-> "no_processes"]
    /\ UNCHANGED <<pc, mainVars, physVars, listVars, pid, size, rand_state,
                   handed, failures>>
    /\ UNCHANGED last_failed

\* case MENU_VIEW_PAGE_TABLE: view_page_table waits for the id.
MenuViewPageTable ==
    /\ pc = "menu"
    /\ count # 0
    /\ pc' = "vp_pid"
    /\ output' = NoOutput
    /\ UNCHANGED <<mainVars, physVars, listVars, pid, size, rand_state,
                   handed, failures>>
    /\ UNCHANGED last_failed

\* case MENU_EXIT: free_memory releases every block and main returns.  The
\* structures' fields keep their values; nothing reads them afterwards.
MenuExit ==
    /\ pc = "menu"
    /\ pc' = "exited"
    /\ output' = [kind |-> "exiting"]
    /\ UNCHANGED <<mainVars, physVars, listVars, pid, size, rand_state,
                   handed, failures>>
    /\ UNCHANGED last_failed

\* default: any other number.
MenuInvalid ==
    /\ pc = "menu"
    /\ output' = ErrorOutput("invalid_option")
    /\ UNCHANGED <<pc, mainVars, physVars, listVars, pid, size, rand_state,
                   handed, failures>>
    /\ UNCHANGED last_failed

-----------------------------------------------------------------------------
(* Inputs of create_process and view_page_table.                           *)

RegisteredIds == {At(processes, i).process_id : i \in 0..(count - 1)}

\* The smallest positive integer that is no registered id.  The program
\* only compares ids for equality, so which unused id the user picks makes
\* no difference to its behaviour.
FreshPid ==
    CHOOSE x \in 1..(count + 1) :
        x \notin RegisteredIds /\ \A y \in 1..(x - 1) : y \in RegisteredIds

\* The ids the user types: any registered id or a fresh one.
PidInputs == RegisteredIds \cup {FreshPid}

\* The sizes the user types: rejected numbers, one byte, half a page, one
\* page, two pages, the maximum and twice the maximum.
SizeInputs ==
    BadNumbers \cup {1, page_size \div 2, page_size, 2 * page_size,
                     max_process_size, 2 * max_process_size}

-----------------------------------------------------------------------------
(* view_page_table (lines 448-492).                                        *)

\* The search loop stops one entry short of the end.
MatchingSkipsLast(p) == {i \in 0..(count - 2) : At(processes, i).process_id = p}

\* The search loop of view_page_table: indices whose entry has the id.
Matching(p) == {i \in 0..(count - 1) : At(processes, i).process_id = p}

\* The first matching entry (the loop breaks at the first match).
TargetProcess(p) ==
    At(processes, CHOOSE i \in Matching(p) : \A k \in Matching(p) : i <= k)

ViewPageTableFound(p) ==
    /\ pc = "vp_pid"
    /\ Matching(p) # {}
    /\ output' = [kind |-> "page_table",
                  process_id |-> p,
                  process_size |-> TargetProcess(p).process_size,
                  number_of_pages |-> TargetProcess(p).number_of_pages,
                  frames |-> [i \in 1..TargetProcess(p).number_of_pages |->
                                TargetProcess(p).page_table[i]]]
    /\ pc' = "menu"
    /\ UNCHANGED <<mainVars, physVars, listVars, pid, size, rand_state,
                   handed, failures>>
    /\ UNCHANGED last_failed

ViewPageTableNotFound(p) ==
    /\ pc = "vp_pid"
    /\ Matching(p) = {}
    /\ output' = [kind |-> "not_found", process_id |-> p]
    /\ pc' = "menu"
    /\ UNCHANGED <<mainVars, physVars, listVars, pid, size, rand_state,
                   handed, failures>>
    /\ UNCHANGED last_failed

-----------------------------------------------------------------------------
(* create_process (lines 273-408).                                         *)

\* The loop stops one entry short of the end.
DuplicateSkipsLast(p) == \E i \in 0..(count - 2) : At(processes, i).process_id = p

\* The loop looks at the first entry only.
DuplicateFirstOnly(p) == count > 0 /\ At(processes, 0).process_id = p

\* The uniqueness loop (lines 291-299): some entry of the list has the id.
Duplicate(p) == \E i \in 0..(count - 1) : At(processes, i).process_id = p

\* One page more than the quotient, whether or not there is a remainder.
PagesNeededOneExtra(s, ps) == (s \div ps) + 1

\* The quotient truncated: the page of the remainder is forgotten.
PagesNeededFloor(s, ps) == s \div ps

\* (int)ceil((double)size / page_size).  Both operands are ints, so the
\* double quotient is the real quotient rounded to 53 bits; a quotient of two
\* ints below 2^31 that is no integer differs from every integer by more than
\* that rounding, so ceil returns the exact integer ceiling.
PagesNeeded(s, ps) == IF s % ps = 0 THEN s \div ps ELSE (s \div ps) + 1

\* allocate_frames, line 252: the request fails.
NotEnoughFrames(ffc, required_frames) == ffc < required_frames

\* The frames are read from the bottom of the array instead of the top.
AllocatedFramesFromBottom(ff, ffc, required_frames) ==
    [i \in 1..required_frames |-> At(ff, i - 1)]

\* allocate_frames, lines 257-261: allocated_frames[i] is the entry at the top
\* of free_frames[0..free_frame_count), and the count drops by one each time.
AllocatedFrames(ff, ffc, required_frames) ==
    [i \in 1..required_frames |-> At(ff, ffc - i)]

\* The count is lowered once too few.
CountAfterAllocationOffByOne(ffc, required_frames) == ffc - required_frames + 1

\* free_frame_count after the loop of allocate_frames.
CountAfterAllocation(ffc, required_frames) == ffc - required_frames

\* logical_memory[k] = rand() % 256, for the k-th call after state rs.
LogicalByte(rs, k) == (rs + RandStep * (k + 1)) % 256

\* The generator's state after n calls of rand().
RandAfter(rs, n) == (rs + RandStep * n) % 256

\* The indices of phys_mem->memory written by the copy loops (lines 368-378).
WriteIndices(frames, s, ps) ==
    UNION {{At(frames, i) * ps + j : j \in {x \in 0..(ps - 1) : i * ps + x < s}} :
              i \in 0..(Len(frames) - 1)}

\* The inner loop runs over the whole page: the guard
\* (logical_start + j) < size is missing.
WritersWholePage(frames, s, ps, a) ==
    {i \in 0..(Len(frames) - 1) :
        /\ At(frames, i) * ps <= a
        /\ a < (At(frames, i) + 1) * ps}

\* physical_start is the frame index, not the frame index times page_size.
WritersNoScale(frames, s, ps, a) ==
    {i \in 0..(Len(frames) - 1) :
        /\ At(frames, i) <= a
        /\ a < At(frames, i) + ps
        /\ i * ps + (a - At(frames, i)) < s}

\* The pages whose copy writes physical index a.
Writers(frames, s, ps, a) ==
    {i \in 0..(Len(frames) - 1) :
        /\ At(frames, i) * ps <= a
        /\ a < (At(frames, i) + 1) * ps
        /\ i * ps + (a - At(frames, i) * ps) < s}

\* phys_mem->memory after the copy loops: each written index holds the
\* logical byte of the last page written there, the others are untouched.
CopiedMemory(mem, frames, s, ps, rs) ==
    [n \in 1..Len(mem) |->
        LET a == n - 1
            w == Writers(frames, s, ps, a)
        IN  IF w = {} THEN mem[n]
            ELSE LET i == CHOOSE x \in w : \A y \in w : y <= x
                 IN  LogicalByte(rs, i * ps + (a - At(frames, i) * ps))]

\* The Process value built at lines 396-400.
NewProcess(p, s, pages, frames) ==
    [process_id |-> p, process_size |-> s, number_of_pages |-> pages,
     page_table |-> frames]

\* Line 326: size > max_process_size, compared with the total size instead.
ExceedsTotal(s, m) == s > total_size

\* Line 326: size > max_process_size.
ExceedsMaximum(s, m) == s > m

\* The id typed is already registered: asked again.
CreateRejectPid(p) ==
    /\ pc = "cp_pid"
    /\ Duplicate(p)
    /\ pid' = p
    /\ output' = ErrorOutput("duplicate_id")
    /\ UNCHANGED <<pc, mainVars, physVars, listVars, size, rand_state,
                   handed, failures>>
    /\ UNCHANGED last_failed

CreateAcceptPid(p) ==
    /\ pc = "cp_pid"
    /\ ~Duplicate(p)
    /\ pid' = p
    /\ pc' = "cp_size"
    /\ output' = NoOutput
    /\ UNCHANGED <<mainVars, physVars, listVars, size, rand_state, handed,
                   failures>>
    /\ UNCHANGED last_failed

\* The size typed is not a power of two or exceeds the maximum: asked again.
CreateRejectSize(s) ==
    /\ pc = "cp_size"
    /\ size' = s
    /\ \/ /\ ~is_power_of_two(s)
          /\ output' = ErrorOutput("size_not_power_of_two")
       \/ /\ is_power_of_two(s)
          /\ ExceedsMaximum(s, max_process_size)
          /\ output' = ErrorOutput("size_exceeds_max")
    /\ UNCHANGED <<pc, mainVars, physVars, listVars, pid, rand_state, handed,
                   failures>>
    /\ UNCHANGED last_failed

\* The size typed is valid: the input loop is left (line 332).
CreateAcceptSize(s) ==
    /\ pc = "cp_size"
    /\ is_power_of_two(s)
    /\ ~ExceedsMaximum(s, max_process_size)
    /\ size' = s
    /\ pc' = "cp_alloc"
    /\ output' = NoOutput
    /\ UNCHANGED <<mainVars, physVars, listVars, pid, rand_state, handed,
                   failures>>
    /\ UNCHANGED last_failed

\* malloc of allocated_frames returns NULL (lines 339-344).
CreateNoMemFrames ==
    /\ pc = "cp_alloc"
    /\ failures < MaxFail
    /\ failures' = failures + 1
    /\ output' = ErrorOutput("no_memory_for_frames")
    /\ pc' = "menu"
    /\ pid' = 0
    /\ size' = 0
    /\ UNCHANGED <<mainVars, physVars, listVars, rand_state, handed>>
    /\ last_failed' = pid

\* allocate_frames takes the frames there are before it reports failure.
CreateInsufficientPartial ==
    /\ pc = "cp_alloc"
    /\ NotEnoughFrames(free_frame_count, PagesNeeded(size, page_size))
    /\ free_frame_count' = 0
    /\ output' = ErrorOutput("insufficient_frames")
    /\ pc' = "menu"
    /\ pid' = 0
    /\ size' = 0
    /\ UNCHANGED <<mainVars, memory, total_size, page_size, number_of_frames,
                   free_frames, listVars, rand_state, handed, failures>>
    /\ last_failed' = pid

\* allocate_frames returns 0 (lines 346-351).
CreateInsufficient ==
    /\ pc = "cp_alloc"
    /\ NotEnoughFrames(free_frame_count, PagesNeeded(size, page_size))
    /\ output' = ErrorOutput("insufficient_frames")
    /\ pc' = "menu"
    /\ pid' = 0
    /\ size' = 0
    /\ UNCHANGED <<mainVars, physVars, listVars, rand_state, handed, failures>>
    /\ last_failed' = pid

\* allocate_frames returns 1, then malloc of logical_memory returns NULL
\* (lines 354-360): allocated_frames is freed, free_frame_count stays lowered.
CreateNoMemLogical ==
    /\ pc = "cp_alloc"
    /\ ~NotEnoughFrames(free_frame_count, PagesNeeded(size, page_size))
    /\ failures < MaxFail
    /\ failures' = failures + 1
    /\ free_frame_count' =
           CountAfterAllocation(free_frame_count, PagesNeeded(size, page_size))
    /\ handed' = handed \o AllocatedFrames(free_frames, free_frame_count,
                                           PagesNeeded(size, page_size))
    /\ output' = ErrorOutput("no_memory_for_logical")
    /\ pc' = "menu"
    /\ pid' = 0
    /\ size' = 0
    /\ UNCHANGED <<mainVars, memory, total_size, page_size, number_of_frames,
                   free_frames, listVars, rand_state>>
    /\ last_failed' = pid

\* Lines 346-380 with every allocation succeeding: the frames are taken, the
\* logical bytes are drawn and copied into the frames.
CreateAllocateAndCopy ==
    /\ pc = "cp_alloc"
    /\ ~NotEnoughFrames(free_frame_count, PagesNeeded(size, page_size))
    /\ free_frame_count' =
           CountAfterAllocation(free_frame_count, PagesNeeded(size, page_size))
    /\ handed' = handed \o AllocatedFrames(free_frames, free_frame_count,
                                           PagesNeeded(size, page_size))
    /\ memory' = CopiedMemory(memory,
                              AllocatedFrames(free_frames, free_frame_count,
                                              PagesNeeded(size, page_size)),
                              size, page_size, rand_state)
    /\ rand_state' = RandAfter(rand_state, size)
    /\ UNCHANGED <<mainVars, total_size, page_size, number_of_frames,
                   free_frames>>

\* Once the list has an entry, the new entry overwrites the last one instead
\* of following it.
CreateStoreOverLast ==
    /\ processes' =
          LET new == NewProcess(pid, size, PagesNeeded(size, page_size),
                                AllocatedFrames(free_frames, free_frame_count,
                                                PagesNeeded(size, page_size)))
          IN  IF count = 0 THEN <<new>>
              ELSE [i \in 1..Len(processes) |->
                      IF i = Len(processes) THEN new ELSE processes[i]]
    /\ count' = IF count = 0 THEN 1 ELSE count
    /\ output' = [kind |-> "created", process_id |-> pid, process_size |-> size,
                  number_of_pages |-> PagesNeeded(size, page_size)]
    /\ pc' = "menu"
    /\ pid' = 0
    /\ size' = 0
    /\ last_failed' = 0

\* Lines 396-402: the new entry is stored at processes[count], count grows.
CreateStore ==
    /\ processes' = Append(processes,
                           NewProcess(pid, size, PagesNeeded(size, page_size),
                                      AllocatedFrames(free_frames, free_frame_count,
                                                      PagesNeeded(size, page_size))))
    /\ count' = count + 1
    /\ output' = [kind |-> "created", process_id |-> pid, process_size |-> size,
                  number_of_pages |-> PagesNeeded(size, page_size)]
    /\ pc' = "menu"
    /\ pid' = 0
    /\ size' = 0
    /\ last_failed' = 0

\* The list is full and realloc returns NULL (lines 383-392): capacity is
\* already doubled, the block is the old one, the frames stay taken.
CreateNoMemList ==
    /\ CreateAllocateAndCopy
    /\ count >= capacity
    /\ failures < MaxFail
    /\ failures' = failures + 1
    /\ capacity' = capacity * 2
    /\ output' = ErrorOutput("no_memory_for_list")
    /\ pc' = "menu"
    /\ pid' = 0
    /\ size' = 0
    /\ UNCHANGED <<processes, count, slots>>
    /\ last_failed' = pid

\* The list is full and realloc succeeds: capacity doubles and the process
\* is registered in the larger block.
CreateSuccessGrown ==
    /\ CreateAllocateAndCopy
    /\ count >= capacity
    /\ capacity' = capacity * 2
    /\ slots' = capacity * 2
    /\ CreateStore
    /\ UNCHANGED failures

\* The list has room according to capacity and the block has the slot: the
\* process is registered.
CreateSuccess ==
    /\ CreateAllocateAndCopy
    /\ count < capacity
    /\ count < slots
    /\ CreateStore
    /\ UNCHANGED <<capacity, slots, failures>>

\* capacity says there is room but the block is smaller (an earlier realloc
\* failed): the store at processes[count] is outside the block.  Undefined
\* behaviour; this outcome is the store landing in adjacent heap memory and
\* the program going on.
CreateOverflowLands ==
    /\ CreateAllocateAndCopy
    /\ count < capacity
    /\ count >= slots
    /\ CreateStore
    /\ UNCHANGED <<capacity, slots, failures>>

\* The same store outside the block; this outcome is the program aborting.
CreateOverflowCrash ==
    /\ CreateAllocateAndCopy
    /\ count < capacity
    /\ count >= slots
    /\ pc' = "crashed"
    /\ output' = [kind |-> "crashed"]
    /\ UNCHANGED <<listVars, pid, size, failures>>
    /\ UNCHANGED last_failed

-----------------------------------------------------------------------------
(* The program.                                                            *)

Next ==
    \/ \E t \in TotalInputs : RejectTotal(t)
    \/ \E t \in TotalInputs : AcceptTotal(t)
    \/ \E p \in PageInputs(total_memory_size) : RejectPage(p)
    \/ \E p \in PageInputs(total_memory_size) : AcceptPage(p)
    \/ \E m \in MaxInputs(total_memory_size, main_page_size) : RejectMax(m)
    \/ \E m \in MaxInputs(total_memory_size, main_page_size) :
          AcceptMaxAndInitialize(m)
    \/ \E m \in MaxInputs(total_memory_size, main_page_size) :
          AcceptMaxAndFail(m)
    \/ MenuViewMemory
    \/ MenuCreate
    \/ MenuViewPageTableEmpty
    \/ MenuViewPageTable
    \/ MenuExit
    \/ MenuInvalid
    \/ \E p \in PidInputs : ViewPageTableFound(p)
    \/ \E p \in PidInputs : ViewPageTableNotFound(p)
    \/ \E p \in PidInputs : CreateRejectPid(p)
    \/ \E p \in PidInputs : CreateAcceptPid(p)
    \/ \E s \in SizeInputs : CreateRejectSize(s)
    \/ \E s \in SizeInputs : CreateAcceptSize(s)
    \/ CreateNoMemFrames
    \/ CreateInsufficient
    \/ CreateNoMemLogical
    \/ CreateNoMemList
    \/ CreateSuccessGrown
    \/ CreateSuccess
    \/ CreateOverflowLands
    \/ CreateOverflowCrash

Spec == Init /\ [][Next]_vars

-----------------------------------------------------------------------------
(* Vocabulary of the properties, stated without the operators above.       *)

IsPow2(n) == \E k \in 0..30 : n = 2^k

\* The frame indices of the free pool free_frames[0..free_frame_count).
FreePool == {free_frames[j] : j \in 1..free_frame_count}

\* The frame indices listed in some registered process's page table.
AssignedFrames ==
    UNION {{processes[i].page_table[k] :
                k \in 1..Len(processes[i].page_table)} : i \in 1..Len(processes)}

\* Every <<process, page>> slot of every page table.
PageSlots ==
    UNION {{<<i, k>> : k \in 1..Len(processes[i].page_table)} :
              i \in 1..Len(processes)}

FrameOf(slot) == processes[slot[1]].page_table[slot[2]]

\* The least number of pages of page_size bytes that hold n bytes.
CeilPages(n) == CHOOSE q \in 0..n : q * page_size >= n /\ (q - 1) * page_size < n

\* A create_process call has returned after allocate_frames took frames but
\* without registering the process.
FramesLeaked == Len(handed) > Cardinality(AssignedFrames)

-----------------------------------------------------------------------------
(* C1                                                                      *)

\* C1: in every reachable state the free pool is exactly the set of frames
\* in [0, number_of_frames) that no registered process's page table lists:
\* every frame is free or assigned, never both, never neither.  The early
\* returns of create_process after allocate_frames (lines 359 and 391) break
\* it: the frames taken are in neither set.
C1_FreePoolIsComplement ==
    /\ FreePool = (0..(number_of_frames - 1)) \ AssignedFrames
    /\ Cardinality(FreePool) = free_frame_count

-----------------------------------------------------------------------------
(* C2                                                                      *)

\* C2: no frame index occurs twice across all page tables: two different
\* page slots (of one process or of two) never hold the same frame.
C2_NoFrameTwice ==
    \A a \in PageSlots : \A b \in PageSlots : a # b => FrameOf(a) # FrameOf(b)

\* Two processes are registered and one of them has more than one page.
C2_Witness ==
    /\ count >= 2
    /\ \E i \in 1..Len(processes) : processes[i].number_of_pages >= 2

-----------------------------------------------------------------------------
(* C3                                                                      *)

\* C3: the indices returned by the successful allocate_frames calls so far,
\* concatenated in call order, are F-1, F-2, ..., F-k, and free_frame_count
\* is F-k, where F is number_of_frames and k the number of frames taken.
C3_StackOrder ==
    /\ handed = [i \in 1..Len(handed) |-> number_of_frames - i]
    /\ free_frame_count = number_of_frames - Len(handed)

\* Three calls have taken frames, five frames or more in total.
C3_Witness == count >= 3 /\ Len(handed) >= 5 /\ free_frame_count > 0

-----------------------------------------------------------------------------
(* C4                                                                      *)

\* C4: when create_process reaches the allocation with fewer free frames
\* than the pages the size needs, it returns to the menu with the free pool,
\* the frames handed out, the physical bytes and the registry unchanged.
C4_NoPartialAllocation ==
    [][(pc = "cp_alloc" /\ free_frame_count < CeilPages(size))
          => /\ pc' = "menu"
             /\ UNCHANGED <<free_frames, free_frame_count, handed, memory,
                            processes, count>>]_vars

\* A request was refused for lack of frames while some frames were free.
C4_Witness ==
    /\ pc = "menu"
    /\ output = ErrorOutput("insufficient_frames")
    /\ free_frame_count > 0
    /\ count > 0

-----------------------------------------------------------------------------
(* C5                                                                      *)

\* C5: when the id read by create_process is the id of a registered process,
\* the function stays at the id prompt: no frame is requested, nothing is
\* registered, the registry count and the free pool are as before.
C5_DuplicateRejected ==
    [][(pc = "cp_pid"
        /\ \E i \in 1..Len(processes) : processes[i].process_id = pid')
          => /\ pc' = "cp_pid"
             /\ UNCHANGED <<processes, count, free_frames, free_frame_count,
                            handed>>]_vars

\* A duplicate id has just been refused, with two processes registered.
C5_Witness ==
    /\ pc = "cp_pid"
    /\ output = ErrorOutput("duplicate_id")
    /\ count >= 2
    /\ pid = processes[count].process_id

-----------------------------------------------------------------------------
(* C6                                                                      *)

\* C6: the process_id values of the registry are pairwise distinct.
C6_DistinctIds ==
    \A i \in 1..Len(processes) : \A k \in 1..Len(processes) :
        i # k => processes[i].process_id # processes[k].process_id

\* Three processes are registered.
C6_Witness == count >= 3 /\ Len(processes) = count

-----------------------------------------------------------------------------
(* C7                                                                      *)

\* C7: a size that is no power of two or exceeds max_process_size is refused
\* with the allocator and the registry unchanged, and every registered
\* process has a size that is a positive power of two, at most
\* max_process_size and at most total_size.
C7_SizesValid ==
    /\ [](\A i \in 1..Len(processes) :
            /\ processes[i].process_size > 0
            /\ IsPow2(processes[i].process_size)
            /\ processes[i].process_size <= max_process_size
            /\ processes[i].process_size <= total_size)
    /\ [][(pc = "cp_size" /\ (~IsPow2(size') \/ size' > max_process_size))
            => /\ pc' = "cp_size"
               /\ UNCHANGED <<free_frames, free_frame_count, handed, memory,
                              processes, count, capacity>>]_vars

\* A size above the maximum has just been refused, a process being registered.
C7_Witness ==
    /\ pc = "cp_size"
    /\ output = ErrorOutput("size_exceeds_max")
    /\ size <= total_size
    /\ count >= 1

-----------------------------------------------------------------------------
(* C8                                                                      *)

\* C8: every registered process has as many page-table entries as
\* number_of_pages says, and that number is the exact ceiling of
\* process_size / page_size (the quotient when page_size divides the size, one
\* when the size is below page_size); and the creation of a process removes
\* exactly that many frames from the free pool.
C8_PagesExact ==
    /\ [](\A i \in 1..Len(processes) :
            LET n == processes[i].number_of_pages
                s == processes[i].process_size
            IN  /\ Len(processes[i].page_table) = n
                /\ n * page_size >= s
                /\ (n - 1) * page_size < s
                /\ (s % page_size = 0 => n * page_size = s)
                /\ (s < page_size => n = 1))
    /\ [][count' = count + 1
            => free_frame_count - free_frame_count'
                 = processes'[count'].number_of_pages]_vars

\* A process smaller than a page and a process of several pages coexist.
C8_Witness ==
    /\ \E i \in 1..Len(processes) : processes[i].process_size < page_size
    /\ \E i \in 1..Len(processes) : processes[i].number_of_pages >= 2

-----------------------------------------------------------------------------
(* C9                                                                      *)

IsScenario == total_size = 1024 /\ page_size = 256 /\ max_process_size = 512

ScenarioFirst ==
    [process_id |-> 1, process_size |-> 512, number_of_pages |-> 2,
     page_table |-> <<3, 2>>]

ScenarioSecond ==
    [process_id |-> 2, process_size |-> 512, number_of_pages |-> 2,
     page_table |-> <<1, 0>>]

\* The call returned because malloc or realloc returned NULL.
OutOfMemory(o) ==
    o \in {ErrorOutput("no_memory_for_frames"),
           ErrorOutput("no_memory_for_logical"),
           ErrorOutput("no_memory_for_list")}

\* C9: after initialize(1024, 256, 512) there are 4 free frames;
\* create_process(1, 512) on the fresh simulator registers page table [3, 2]
\* and leaves 2 free frames; create_process(2, 512) then registers [1, 0] and
\* leaves none; create_process(3, 256) then fails for insufficient frames
\* with the pool and the two-process registry unchanged.  (The C heap running
\* out of memory is outside the scenario.)
C9_Scenario ==
    /\ []((IsScenario /\ handed = <<>>)
            => (number_of_frames = 4 /\ free_frame_count = 4 /\ count = 0))
    /\ [][(IsScenario /\ pc = "cp_alloc" /\ ~OutOfMemory(output'))
            => /\ (handed = <<>> /\ pid = 1 /\ size = 512)
                    => /\ output'.kind = "created"
                       /\ processes' = <<ScenarioFirst>>
                       /\ count' = 1
                       /\ free_frame_count' = 2
               /\ (processes = <<ScenarioFirst>> /\ free_frame_count = 2
                   /\ pid = 2 /\ size = 512)
                    => /\ output'.kind = "created"
                       /\ processes' = <<ScenarioFirst, ScenarioSecond>>
                       /\ count' = 2
                       /\ free_frame_count' = 0
               /\ (processes = <<ScenarioFirst, ScenarioSecond>>
                   /\ free_frame_count = 0 /\ pid = 3 /\ size = 256)
                    => /\ output' = ErrorOutput("insufficient_frames")
                       /\ UNCHANGED <<free_frames, free_frame_count, memory,
                                      processes, count, capacity>>]_vars

\* The scenario has run to its end: both processes registered with the
\* tables of the scenario, no frame free, a third request just refused.
C9_Witness ==
    /\ IsScenario
    /\ pc = "menu"
    /\ processes = <<ScenarioFirst, ScenarioSecond>>
    /\ free_frame_count = 0
    /\ output = ErrorOutput("insufficient_frames")

-----------------------------------------------------------------------------
(* C10                                                                     *)

\* C10: initialization with powers of two t >= p > 0 yields
\* number_of_frames = t / p with number_of_frames * p = t, free_frame_count
\* = number_of_frames, a free pool holding every index 0..number_of_frames-1
\* exactly once, an empty registry and t zero bytes of physical memory.
C10_InitializeExact ==
    [][(pc = "cfg_max" /\ pc' = "menu")
          => /\ total_size' = total_memory_size
             /\ page_size' = main_page_size
             /\ IsPow2(total_size') /\ IsPow2(page_size')
             /\ total_size' >= page_size'
             /\ number_of_frames' * page_size' = total_size'
             /\ free_frame_count' = number_of_frames'
             /\ Len(free_frames') = number_of_frames'
             /\ \A f \in 0..(number_of_frames' - 1) :
                    Cardinality({j \in 1..free_frame_count' :
                                    free_frames'[j] = f}) = 1
             /\ count' = 0
             /\ processes' = <<>>
             /\ Len(memory') = total_size'
             /\ \A a \in 1..Len(memory') : memory'[a] = 0]_vars

\* The simulator has just been initialized with eight frames of one byte.
C10_Witness ==
    /\ pc = "menu"
    /\ count = 0
    /\ handed = <<>>
    /\ number_of_frames = 8
    /\ free_frame_count = 8

-----------------------------------------------------------------------------
(* C11                                                                     *)

\* The step registers a complete entry for the pending request.
RegistersPending ==
    /\ count' = count + 1
    /\ Len(processes') = Len(processes) + 1
    /\ \A i \in 1..Len(processes) : processes'[i] = processes[i]
    /\ processes'[Len(processes')].process_id = pid
    /\ processes'[Len(processes')].process_size = size
    /\ processes'[Len(processes')].number_of_pages = CeilPages(size)
    /\ Len(processes'[Len(processes')].page_table) = CeilPages(size)

\* C11: every create_process call either ends with the process registered,
\* its page table fully populated, or ends with the registry (count, capacity
\* and entries) as before the call.  The return after a failed realloc
\* (lines 385-391) breaks it: capacity is left doubled.
C11_CreationAtomic ==
    [][pc = "cp_alloc"
          => (RegistersPending \/ UNCHANGED <<processes, count, capacity>>)]_vars

-----------------------------------------------------------------------------
(* C12                                                                     *)

\* The simulation is running: initialized and neither exited nor aborted.
Running == pc \in {"menu", "cp_pid", "cp_size", "cp_alloc", "vp_pid"}

\* C12: while the simulation runs, no step raises free_frame_count, no step
\* lowers the registry count, and every registered entry (id, size, number
\* of pages, page table) is the same after the step as before it.
C12_NothingReleased ==
    [][Running
          => /\ free_frame_count' <= free_frame_count
             /\ count' >= count
             /\ Len(processes') >= Len(processes)
             /\ \A i \in 1..Len(processes) : processes'[i] = processes[i]]_vars

\* Three processes are registered and a later request has been refused.
C12_Witness ==
    /\ pc = "menu"
    /\ count >= 3
    /\ output = ErrorOutput("insufficient_frames")
    /\ free_frame_count > 0

-----------------------------------------------------------------------------
(* C13                                                                     *)

\* The step is one of view_physical_memory or view_page_table.
ViewStep ==
    \/ pc = "vp_pid"
    \/ pc = "menu" /\ pc' = "vp_pid"
    \/ pc = "menu" /\ output'.kind \in {"memory", "no_processes"}

\* C13: the inspection operations leave the free pool, free_frame_count, the
\* physical bytes and the registry unchanged; view_page_table for a
\* registered id reports the size, page count and frames of that process's
\* entry, and reports "not found" exactly when no entry has the id.
C13_ViewsReadOnly ==
    [][ViewStep
          => /\ UNCHANGED <<free_frames, free_frame_count, memory, processes,
                            count, capacity, slots, handed>>
             /\ pc = "vp_pid"
                  => /\ output'.kind \in {"page_table", "not_found"}
                     /\ (output'.kind = "not_found")
                          <=> (\A i \in 1..Len(processes) :
                                 processes[i].process_id # output'.process_id)
                     /\ (output'.kind = "page_table")
                          => \E i \in 1..Len(processes) :
                               /\ processes[i].process_id = output'.process_id
                               /\ processes[i].process_size = output'.process_size
                               /\ processes[i].number_of_pages
                                    = output'.number_of_pages
                               /\ processes[i].page_table = output'.frames]_vars

\* The page table of the second of two processes has just been shown.
C13_Witness ==
    /\ pc = "menu"
    /\ output.kind = "page_table"
    /\ count >= 2
    /\ output.process_id = processes[count].process_id
    /\ Len(output.frames) >= 2

-----------------------------------------------------------------------------
(* C14                                                                     *)

\* C14: the free pool holds pairwise distinct indices within
\* [0, number_of_frames), 0 <= free_frame_count <= number_of_frames, and a
\* memory report flags exactly free_frame_count frames as free and
\* number_of_frames - free_frame_count as occupied.
C14_PoolAndStatus ==
    /\ 0 <= free_frame_count
    /\ free_frame_count <= number_of_frames
    /\ \A j \in 1..free_frame_count :
          /\ free_frames[j] \in 0..(number_of_frames - 1)
          /\ \A k \in 1..free_frame_count : j # k => free_frames[j] # free_frames[k]
    /\ output.kind = "memory"
          => /\ Cardinality({i \in 1..Len(output.is_free) : output.is_free[i]})
                  = output.free_frame_count
             /\ Cardinality({i \in 1..Len(output.is_free) : ~output.is_free[i]})
                  = output.number_of_frames - output.free_frame_count
             /\ Len(output.is_free) = number_of_frames
             /\ (pc = "menu" => output.free_frame_count = free_frame_count)

\* A memory report shows some frames free and some occupied.
C14_Witness ==
    /\ output.kind = "memory"
    /\ output.free_frame_count > 0
    /\ output.free_frame_count < output.number_of_frames - 1

-----------------------------------------------------------------------------
(* C15                                                                     *)

\* C15 as claimed: once a create_process call with some id has failed after
\* the duplicate check, no later create_process with that id succeeds.  It
\* does not hold: the id of a failed call is in no list and is accepted again.
C15_NeverReusedAfterFailure ==
    [][(count' = count + 1 /\ last_failed # 0)
          => processes'[Len(processes')].process_id # last_failed]_vars

\* C15 as amended: no create_process with the id of a registered process
\* succeeds, so an id is never reused once a process holds it; the id of a
\* call that failed was never registered and may be used by a later call.
C15_RegisteredIdNotReused ==
    [][count' = count + 1
          => \A i \in 1..Len(processes) :
                processes[i].process_id # processes'[Len(processes')].process_id]_vars

\* The id of the preceding, failed call has been typed again, accepted, and
\* is about to be registered: the frames suffice this time.
C15_Witness ==
    /\ pc = "cp_alloc"
    /\ pid # 0
    /\ pid = last_failed
    /\ count >= 1
    /\ free_frame_count >= CeilPages(size)

-----------------------------------------------------------------------------
(* C16                                                                     *)

\* The physical index of offset j of the frame f.
PhysicalIndex(f, j) == f * page_size + j

\* C16: a successful create_process leaves, for every page i and offset j
\* with i * page_size + j < size, the logical byte i * page_size + j at
\* offset j of frame page_table[i], and zero at the offsets of the last frame
\* past the size; and no later step changes a byte of a registered process's
\* frames.
C16_BytesCopied ==
    /\ [][count' = count + 1
            => LET e == processes'[Len(processes')]
               IN  \A i \in 0..(e.number_of_pages - 1) :
                     \A j \in 0..(page_size - 1) :
                       LET b == memory'[PhysicalIndex(e.page_table[i + 1], j) + 1]
                       IN  IF i * page_size + j < e.process_size
                           THEN b = LogicalByte(rand_state, i * page_size + j)
                           ELSE b = 0]_vars
    /\ [][(Running /\ memory' # memory)
            => \A i \in 1..Len(processes) :
                 \A k \in 1..Len(processes[i].page_table) :
                   \A j \in 0..(page_size - 1) :
                     LET n == PhysicalIndex(processes[i].page_table[k], j) + 1
                     IN  memory'[n] = memory[n]]_vars

\* A process smaller than a page holds a non-zero byte followed by a zero
\* byte in its frame, and a process was created after it.
C16_Witness ==
    /\ count >= 2
    /\ processes[1].process_size < page_size
    /\ memory[PhysicalIndex(processes[1].page_table[1], 0) + 1] # 0
    /\ memory[PhysicalIndex(processes[1].page_table[1], page_size - 1) + 1] = 0
    /\ processes[2].number_of_pages >= 2

-----------------------------------------------------------------------------
(* C17                                                                     *)

\* C17: entries keep their positions, capacity is 10 * 2^n and changes only
\* by doubling at an insertion made when count equals capacity,
\* 0 <= count <= capacity, and every entry lies inside the block processes
\* points to.  The failed realloc breaks it: capacity doubles with no
\* insertion and no larger block, and the next store is past the block.
C17_RegistryGrowth ==
    /\ [](Running
            => /\ 0 <= count
               /\ count <= capacity
               /\ Len(processes) = count
               /\ \E n \in 0..10 : capacity = INITIAL_PROCESS_LIST_CAPACITY * 2^n
               /\ count <= slots)
    /\ [][Running
            => /\ \A i \in 1..Len(processes) :
                    Len(processes') >= i /\ processes'[i] = processes[i]
               /\ capacity' # capacity
                    => /\ count = capacity
                       /\ capacity' = 2 * capacity
                       /\ count' = count + 1]_vars

-----------------------------------------------------------------------------
(* C18                                                                     *)

\* C18: a request with an unregistered id and a valid size succeeds if and
\* only if the pages it needs are at most free_frame_count, and the first
\* request on a fresh simulator always succeeds.  (Returns for a NULL from
\* malloc or realloc are left out, as in C9.)  The store past the block after
\* a failed realloc (C17) breaks it: the request has the frames and the
\* program may abort instead of registering the process.
C18_FailsOnlyForFrames ==
    [][(pc = "cp_alloc" /\ ~OutOfMemory(output'))
          => /\ (output'.kind = "created" /\ count' = count + 1)
                  <=> (CeilPages(size) <= free_frame_count)
             /\ (handed = <<>> /\ count = 0) => output'.kind = "created"]_vars

-----------------------------------------------------------------------------
(* C19                                                                     *)

\* The frames allocate_frames returned in the step.
JustAllocated == {handed'[k] : k \in (Len(handed) + 1)..Len(handed')}

\* C19: create_process writes physical memory only inside the frames it has
\* just been allocated: every write index is in [0, total_size) and in the
\* region of such a frame, so the bytes of every other frame are unchanged,
\* and the bytes of every free frame are zero.
C19_WritesInsideOwnFrames ==
    /\ [](\A f \in FreePool : \A j \in 0..(page_size - 1) :
             memory[PhysicalIndex(f, j) + 1] = 0)
    /\ [][pc = "cp_alloc"
            => /\ Len(memory') = Len(memory)
               /\ memory' # memory
                    => \A n \in 1..Len(memory) :
                         memory'[n] # memory[n]
                           => ((n - 1) \div page_size) \in JustAllocated
               /\ \A w \in WriteIndices(SubSeq(handed', Len(handed) + 1,
                                               Len(handed')), size, page_size) :
                    /\ 0 <= w
                    /\ w < total_size
                    /\ (w \div page_size) \in JustAllocated]_vars

\* Two processes hold non-zero bytes in frames of several bytes and a frame
\* is still free.
C19_Witness ==
    /\ count >= 2
    /\ page_size >= 2
    /\ free_frame_count > 0
    /\ memory[PhysicalIndex(processes[1].page_table[1], 0) + 1] # 0
    /\ memory[PhysicalIndex(processes[2].page_table[1], 1) + 1] # 0

-----------------------------------------------------------------------------
(* C20                                                                     *)

RECURSIVE SumOfPages(_)
\* number_of_pages summed over the first n entries of the registry.
SumOfPages(n) ==
    IF n = 0 THEN 0 ELSE processes[n].number_of_pages + SumOfPages(n - 1)

\* C20: every registered process owns at least one frame, the number of
\* processes and the sum of their page counts never exceed number_of_frames;
\* once free_frame_count is 0 it stays 0, and every create_process request
\* made then fails for insufficient frames with the state unchanged.
C20_FullStaysFull ==
    /\ [](Running
            => /\ \A i \in 1..Len(processes) :
                    /\ processes[i].number_of_pages >= 1
                    /\ Len(processes[i].page_table) >= 1
               /\ count <= number_of_frames
               /\ SumOfPages(Len(processes)) <= number_of_frames)
    /\ [][(Running /\ free_frame_count = 0) => free_frame_count' = 0]_vars
    /\ [][(pc = "cp_alloc" /\ free_frame_count = 0 /\ ~OutOfMemory(output'))
            => /\ output' = ErrorOutput("insufficient_frames")
               /\ pc' = "menu"
               /\ UNCHANGED <<free_frames, free_frame_count, handed, memory,
                              processes, count, capacity>>]_vars

\* Every frame is taken by the registered processes and a request has just
\* been refused.
C20_Witness ==
    /\ pc = "menu"
    /\ free_frame_count = 0
    /\ number_of_frames >= 4
    /\ count >= 2
    /\ SumOfPages(Len(processes)) = number_of_frames
    /\ output = ErrorOutput("insufficient_frames")

====
